---- MODULE Spec2Model ----
(***************************************************************************)
(* The message dispatch engine and session orchestrator of the device-to-  *)
(* cloud protocol (Protocol::begin, Protocol::event_loop,                  *)
(* Protocol::handle_received_message, Protocol::post_description, ...).    *)
(*                                                                         *)
(* The engine is single threaded: every handler runs to completion, so one *)
(* action is one call of a public entry point.  The only call that is      *)
(* split is begin(), which polls the channel in event_loop(HELLO, 4000):   *)
(* each iteration of that loop is one action.                              *)
(*                                                                         *)
(* Handlers are written as operators over a record s of the fields they    *)
(* read and write; the outcome of every call into the channel (which is    *)
(* outside the engine) is an input of the action.                          *)
(***************************************************************************)
EXTENDS Integers, Sequences, FiniteSets, TLC

\* ------------------------------------------------------------------ bounds

\* Message ids the channel hands out are 1..MaxId; once they are used up
\* every further send of a new message fails.
MaxId == 2
\* Time is counted in ticks of TickMs; between two readings of the
\* millisecond clock at most MaxElapsed ticks pass.
TickMs == 2000
MaxElapsed == 1
\* Deadline, in ticks, of a completion handler registered for a request.
AckTimeoutTicks == 1
\* Inside begin()'s wait for HELLO, messages other than HELLO are received
\* only while the journal of the call is shorter than this.
MaxWaitLog == 2
\* Completion handlers pending at a time.
MaxPending == 1

\* --------------------------------------------------------------- constants

\* event_loop(CoAPMessageType::HELLO, 4000)
HELLO_TIMEOUT == 4000

\* Sentinel of the pending reply ids; a 16 bit message id never equals it.
INVALID_MESSAGE_HANDLE == -1

MsgIds == 1..MaxId

\* ProtocolFlag
REQUIRE_HELLO_RESPONSE == "REQUIRE_HELLO_RESPONSE"
DEVICE_INITIATED_DESCRIBE == "DEVICE_INITIATED_DESCRIBE"
ProtocolFlags == {REQUIRE_HELLO_RESPONSE, DEVICE_INITIATED_DESCRIBE}

\* DescriptionType, as a set of flavors
DESCRIBE_SYSTEM == "DESCRIBE_SYSTEM"
DESCRIBE_APPLICATION == "DESCRIBE_APPLICATION"
DESCRIBE_DEFAULT == {DESCRIBE_SYSTEM, DESCRIBE_APPLICATION}

\* AppStateDescriptor: the fields, which are also the bits of a mask
SYSTEM_DESCRIBE_CRC == "SYSTEM_DESCRIBE_CRC"
APP_DESCRIBE_CRC == "APP_DESCRIBE_CRC"
SUBSCRIPTIONS_CRC == "SUBSCRIPTIONS_CRC"
PROTOCOL_FLAGS == "PROTOCOL_FLAGS"
ALL == {SYSTEM_DESCRIBE_CRC, APP_DESCRIBE_CRC, SUBSCRIPTIONS_CRC, PROTOCOL_FLAGS}

\* SparkAppStateSelector -> the descriptor field it persists
SelectorField(sel) ==
    CASE sel = "DESCRIBE_SYSTEM" -> SYSTEM_DESCRIBE_CRC
      [] sel = "DESCRIBE_APP" -> APP_DESCRIBE_CRC
      [] sel = "SUBSCRIPTIONS" -> SUBSCRIPTIONS_CRC
      [] sel = "PROTOCOL_FLAGS" -> PROTOCOL_FLAGS

\* The field that holds the CRC of a describe flavor
FlavorField(f) == IF f = DESCRIBE_SYSTEM THEN SYSTEM_DESCRIBE_CRC ELSE APP_DESCRIBE_CRC

CrcValues == {1, 2}

\* -------------------------------------------------------------------- state

VARIABLES
    pc,                      \* "idle", or "hello_wait" inside begin()
    protocol_flags,          \* Protocol::protocol_flags
    selector,                \* descriptor.app_state_selector_info is set
    app_describe_msg_id,
    system_describe_msg_id,
    subscriptions_msg_id,
    ack_handlers,            \* registry: message id -> remaining ticks
    waited,                  \* event_loop(type, timeout): millis() - start, in ticks
    doc,                     \* CRCs of the device's current documents
    cached,                  \* channel.cached_app_state_descriptor()
    nextId,                  \* the id the channel gives the next new message
    log,                     \* journal of the current call: what it did
    fired,                   \* registered request id -> outcomes fired so far
    call,                    \* the current (or last) call and its inputs
    result                   \* its return value, "PENDING" while it runs

vars == <<pc, protocol_flags, selector, app_describe_msg_id, system_describe_msg_id,
          subscriptions_msg_id, ack_handlers, waited,
          doc, cached, nextId, log, fired, call, result>>

\* The fields a handler reads and writes, as one record.
Cur ==
    [log |-> log,
     app_describe_msg_id |-> app_describe_msg_id,
     system_describe_msg_id |-> system_describe_msg_id,
     subscriptions_msg_id |-> subscriptions_msg_id,
     ack_handlers |-> ack_handlers,
     fired |-> fired,
     cached |-> cached,
     nextId |-> nextId,
     ret |-> "NO_ERROR"]

Store(s) ==
    /\ log' = s.log
    /\ app_describe_msg_id' = s.app_describe_msg_id
    /\ system_describe_msg_id' = s.system_describe_msg_id
    /\ subscriptions_msg_id' = s.subscriptions_msg_id
    /\ ack_handlers' = s.ack_handlers
    /\ fired' = s.fired
    /\ cached' = s.cached
    /\ nextId' = s.nextId

Emit(s, e) == [s EXCEPT !.log = Append(@, e)]

Ret(s, r) == [s EXCEPT !.ret = r]

\* ------------------------------------------------------------------ channel

\* What the channel can answer to a send or a create.
ChannelError == "IO_FAILURE"

ErrorOf(ok) == IF ok THEN "NO_ERROR" ELSE ChannelError

\* channel.command(cmd); the engine ignores its result except in key change.
Command(s, cmd) == Emit(s, <<"command", cmd>>)

\* An entry of the journal for a message handed to channel.send: its kind,
\* its id (0: none the engine knows), whether the send succeeded, whether it
\* was sent synchronously (confirm_received) and the flavors of a describe.
Sent(kind, id, ok, confirm, flags) == <<"send", kind, id, ok, confirm, flags>>

\* channel.create(message)
Create(s, ok) == Ret(Emit(s, <<"create", ErrorOf(ok)>>), ErrorOf(ok))

\* channel.send of a message that carries the id of a request (an ACK).
SendReply_unaddressed(s, kind, id, ok) ==
    Ret(Emit(s, Sent(kind, INVALID_MESSAGE_HANDLE, ok, FALSE, {})), ErrorOf(ok))

SendReply(s, kind, id, ok) ==
    Ret(Emit(s, Sent(kind, id, ok, FALSE, {})), ErrorOf(ok))

\* channel.send of a new message whose id the engine does not read back.
SendPlain(s, kind, ok, confirm) ==
    Ret(Emit(s, Sent(kind, 0, ok, confirm, {})), ErrorOf(ok))

\* channel.send of a new message: the channel assigns the id, which the engine
\* reads back with message.get_id().  The send fails when the channel says so,
\* and when the ids 1..MaxId are used up.
SendNew(s, kind, ok, flags) ==
    IF ok /\ s.nextId <= MaxId
    THEN [Emit(s, Sent(kind, s.nextId, TRUE, FALSE, flags)) EXCEPT
            !.nextId = @ + 1, !.ret = "NO_ERROR"]
    ELSE Ret(Emit(s, Sent(kind, 0, FALSE, FALSE, flags)), ChannelError)

\* ------------------------------------------------------- AppStateDescriptor

\* A descriptor: the fields that are set, the three CRCs and the flags
\* (a field that is not set holds 0, or no flag).
CrcFields == {SYSTEM_DESCRIBE_CRC, APP_DESCRIBE_CRC, SUBSCRIPTIONS_CRC}

EmptyDescriptor == [has |-> {}, crc |-> [f \in CrcFields |-> 0], flags |-> {}]

\* Whether field f holds the same value in a and b
SameField(a, b, f) ==
    IF f = PROTOCOL_FLAGS THEN a.flags = b.flags ELSE a.crc[f] = b.crc[f]

\* a.equalsTo(b, mask)
equalsTo(a, b, mask) ==
    \A f \in mask : f \in a.has /\ f \in b.has /\ SameField(a, b, f)

\* Protocol::app_state_descriptor
app_state_descriptor ==
    IF ~selector
    THEN EmptyDescriptor
    ELSE [has |-> ALL, crc |-> doc, flags |-> protocol_flags]

\* descriptor.app_state_selector_info(sel, PERSIST or COMPUTE_AND_PERSIST, value):
\* the platform stores the value (the current CRC when it computes it itself)
\* in the session data the channel hands back as the cached descriptor.
Persist(s, sel, op, value) ==
    LET f == SelectorField(sel)
        t == Emit(s, <<"descriptor", sel, op>>)
    IN IF f = PROTOCOL_FLAGS
       THEN [t EXCEPT !.cached.has = @ \cup {f}, !.cached.flags = value]
       ELSE [t EXCEPT !.cached.has = @ \cup {f},
                      !.cached.crc[f] = IF op = "COMPUTE_AND_PERSIST" THEN doc[f] ELSE value]

\* ------------------------------------------------------ AckHandlerRegistry

Fire(s, id) == [s EXCEPT !.fired[id] = @ + 1]

Remove(h, id) == [i \in DOMAIN h \ {id} |-> h[i]]

\* ack_handlers.setResult(msg_id)
setResult(s, id) ==
    LET t == Emit(s, <<"registry", "setResult", id>>)
    IN IF id \in DOMAIN s.ack_handlers
       THEN [Fire(t, id) EXCEPT !.ack_handlers = Remove(@, id)]
       ELSE t

\* ack_handlers.setError(msg_id, error)
setError(s, id, error) ==
    LET t == Emit(s, <<"registry", error, id>>)
    IN IF id \in DOMAIN s.ack_handlers
       THEN [Fire(t, id) EXCEPT !.ack_handlers = Remove(@, id)]
       ELSE t

\* ack_handlers.update(elapsed): expired handlers fire their timeout error
Expired(h, elapsed) == {i \in DOMAIN h : h[i] <= elapsed}

update(s, elapsed) ==
    LET gone == Expired(s.ack_handlers, elapsed)
    IN [s EXCEPT
          !.ack_handlers = [i \in DOMAIN @ \ gone |-> @[i] - elapsed],
          !.fired = [i \in DOMAIN @ |-> IF i \in gone THEN @[i] + 1 ELSE @[i]]]

\* ack_handlers.clear(): drops every handler without invoking it
clear(s) == [s EXCEPT !.ack_handlers = <<>>]

\* ----------------------------------------------------------------- messages

\* A received message, as the codec decodes it: its CoAPMessageType (mt), its
\* wire type, its message id, the class of its code, the length of its token
\* and, for a DESCRIBE request, the flavors it asks for.
Msg(mt, type, id, cls, token_len, desc) ==
    [mt |-> mt, type |-> type, id |-> id, cls |-> cls, token_len |-> token_len,
     desc |-> desc, len |-> 0, opt |-> 0, token |-> 0]

\* message.length() == 0: nothing was received
NoMsg == Msg("NONE", "NON", 0, 0, 0, {})

\* A RESET carries an empty code
Replies ==
    {Msg("ERROR", "ACK", id, cls, 0, {}) : id \in MsgIds, cls \in {2, 4}}
    \cup {Msg("ERROR", "RESET", id, 0, 0, {}) : id \in MsgIds}

Hellos == {Msg("HELLO", type, 0, 0, 0, {}) : type \in {"CON", "NON"}}

Pings == {Msg("PING", "CON", 0, 0, 0, {})}

DescribeRequests == {Msg("DESCRIBE", "CON", 0, 0, 4, desc) :
                       desc \in {DESCRIBE_DEFAULT, {DESCRIBE_SYSTEM}}}

Inbound == Replies \cup Hellos \cup Pings \cup DescribeRequests

\* CoAPType::is_reply
is_reply(type) == type \in {"ACK", "RESET"}

\* What the channel answers during one call: the outcome of the first
\* channel.create, of the send of an empty ACK, of the second channel.create
\* and of the send of a describe.  A handler stops at the first failure, so
\* the answers are drawn with at most one failure.
AllOk ==
    [create |-> TRUE, ack |-> TRUE, create2 |-> TRUE, send |-> TRUE,
     handler |-> TRUE, command |-> TRUE, fits |-> TRUE]

Answers ==
    {AllOk} \cup {[AllOk EXCEPT ![k] = FALSE] : k \in {"create", "ack", "create2", "send"}}

\* The answers that matter to a call that only posts a describe
PostAnswers == {AllOk} \cup {[AllOk EXCEPT ![k] = FALSE] : k \in {"create", "send"}}

\* The answers that matter to a call that only sends an empty ACK
AckAnswers == {AllOk, [AllOk EXCEPT !.ack = FALSE]}

\* ----------------------------------------------------------------- handlers

\* Protocol::send_empty_ack
send_empty_ack(s, msg_id, ok) == SendReply(s, "EMPTY_ACK", msg_id, ok)

\* CoAPCode::is_success
is_success(cls) == cls = 2

\* Protocol::notify_message_complete
notify_message_complete(s, msg_id, cls) ==
    IF is_success(cls)
    THEN setResult(s, msg_id)
    ELSE setError(s, msg_id,
                  CASE cls = 4 -> "SYSTEM_ERROR_COAP_4XX"
                    [] cls = 5 -> "SYSTEM_ERROR_COAP_5XX"
                    [] OTHER -> "SYSTEM_ERROR_COAP")

\* The SAVE_SESSION / descriptor callback / LOAD_SESSION envelope
Envelope(s, sel, op, value) ==
    Command(Persist(Command(s, "SAVE_SESSION"), sel, op, value), "LOAD_SESSION")

\* Protocol::update_subscription_crc
update_subscription_crc(s) ==
    IF selector
    THEN Envelope(s, "SUBSCRIPTIONS", "PERSIST", doc[SUBSCRIPTIONS_CRC])
    ELSE s

\* The flags persisted outside of the envelope
update_protocol_flags_bare(s) ==
    IF selector
    THEN Persist(s, "PROTOCOL_FLAGS", "PERSIST", protocol_flags)
    ELSE s

\* Protocol::update_protocol_flags
update_protocol_flags(s) ==
    IF selector
    THEN Envelope(s, "PROTOCOL_FLAGS", "PERSIST", protocol_flags)
    ELSE s

\* handle_received_message, "if (msg_id == app_describe_msg_id)"
ReplyAppDescribe(s, m) ==
    IF m.id = s.app_describe_msg_id
    THEN LET t == [s EXCEPT !.app_describe_msg_id = INVALID_MESSAGE_HANDLE]
         IN IF m.type = "ACK" /\ selector
            THEN Envelope(t, "DESCRIBE_APP", "COMPUTE_AND_PERSIST", 0)
            ELSE t
    ELSE s

\* The system describe CRC persisted on a RESET as well
ReplySystemDescribe_any(s, m) ==
    IF m.id = s.system_describe_msg_id
    THEN LET t == [s EXCEPT !.system_describe_msg_id = INVALID_MESSAGE_HANDLE]
         IN IF selector
            THEN Envelope(t, "DESCRIBE_SYSTEM", "COMPUTE_AND_PERSIST", 0)
            ELSE t
    ELSE s

\* handle_received_message, "if (msg_id == system_describe_msg_id)"
ReplySystemDescribe(s, m) ==
    IF m.id = s.system_describe_msg_id
    THEN LET t == [s EXCEPT !.system_describe_msg_id = INVALID_MESSAGE_HANDLE]
         IN IF m.type = "ACK" /\ selector
            THEN Envelope(t, "DESCRIBE_SYSTEM", "COMPUTE_AND_PERSIST", 0)
            ELSE t
    ELSE s

\* handle_received_message, "if (msg_id == subscriptions_msg_id)"
ReplySubscriptions(s, m) ==
    IF m.id = s.subscriptions_msg_id
    THEN LET t == [s EXCEPT !.subscriptions_msg_id = INVALID_MESSAGE_HANDLE]
         IN IF m.type = "ACK" THEN update_subscription_crc(t) ELSE t
    ELSE s

\* The code of a RESET taken as it is
HandleReply_raw(s, m) ==
    LET s1 == notify_message_complete(s, m.id, m.cls)
        s2 == ReplyAppDescribe(s1, m)
        s3 == ReplySystemDescribe(s2, m)
    IN ReplySubscriptions(s3, m)

\* handle_received_message, "if (CoAPType::is_reply(type))"
HandleReply(s, m) ==
    LET code == IF m.type = "RESET" THEN 5 ELSE m.cls
        s1 == notify_message_complete(s, m.id, code)
        s2 == ReplyAppDescribe(s1, m)
        s3 == ReplySystemDescribe(s2, m)
    IN ReplySubscriptions(s3, m)

\* SPARK_ASSERT(!appender.overflowed()): the device panics and runs no further
Panic(s) == Ret(Emit(s, <<"panic", "AssertionFailure">>), "HALT")

\* A document that overflowed sent as far as it fits
generate_and_send_description_truncated(s, kind, desc_flags, fits, ok) ==
    LET t == SendNew(s, kind, ok, desc_flags)
        msg_id == s.nextId
    IN IF t.ret = "NO_ERROR"
       THEN [t EXCEPT
               !.app_describe_msg_id =
                   IF DESCRIBE_APPLICATION \in desc_flags THEN msg_id ELSE @,
               !.system_describe_msg_id =
                   IF DESCRIBE_SYSTEM \in desc_flags THEN msg_id ELSE @]
       ELSE t

\* A describe sent and its id recorded nowhere
generate_and_send_description_unrecorded(s, kind, desc_flags, fits, ok) ==
    IF ~fits THEN Panic(s) ELSE SendNew(s, kind, ok, desc_flags)

\* The id of a describe recorded for both flavors and for the subscriptions
generate_and_send_description_all_ids(s, kind, desc_flags, fits, ok) ==
    LET t == SendNew(s, kind, ok, desc_flags)
        msg_id == s.nextId
    IN IF ~fits THEN Panic(s)
       ELSE IF t.ret = "NO_ERROR"
       THEN [t EXCEPT !.app_describe_msg_id = msg_id,
                      !.system_describe_msg_id = msg_id,
                      !.subscriptions_msg_id = msg_id]
       ELSE t

\* A pending id kept when another describe of the flavor is sent
generate_and_send_description_keep(s, kind, desc_flags, fits, ok) ==
    LET t == SendNew(s, kind, ok, desc_flags)
        msg_id == s.nextId
    IN IF ~fits THEN Panic(s)
       ELSE IF t.ret = "NO_ERROR"
       THEN [t EXCEPT
               !.app_describe_msg_id =
                   IF DESCRIBE_APPLICATION \in desc_flags /\ @ = INVALID_MESSAGE_HANDLE
                   THEN msg_id ELSE @,
               !.system_describe_msg_id =
                   IF DESCRIBE_SYSTEM \in desc_flags /\ @ = INVALID_MESSAGE_HANDLE
                   THEN msg_id ELSE @]
       ELSE t

\* Protocol::generate_and_send_description.  fits: the document did not
\* overflow the buffer of the message.
generate_and_send_description(s, kind, desc_flags, fits, ok) ==
    LET t == SendNew(s, kind, ok, desc_flags)
        msg_id == s.nextId
    IN IF ~fits THEN Panic(s)
       ELSE IF t.ret = "NO_ERROR"
       THEN [t EXCEPT
               !.app_describe_msg_id =
                   IF DESCRIBE_APPLICATION \in desc_flags THEN msg_id ELSE @,
               !.system_describe_msg_id =
                   IF DESCRIBE_SYSTEM \in desc_flags THEN msg_id ELSE @]
       ELSE t

\* The cached CRCs not looked at
FlagsToPost_all(s, desc_flags, force) == desc_flags

\* post_description, "if (!force)": the flavors left to post
FlagsToPost(s, desc_flags, force) ==
    IF force
    THEN desc_flags
    ELSE {f \in desc_flags :
            ~equalsTo(app_state_descriptor, s.cached, {FlavorField(f)})}

\* Protocol::post_description
post_description(s, desc_flags, force, ch) ==
    LET flags == FlagsToPost(s, desc_flags, force)
    IN IF flags = {}
       THEN Ret(s, "NO_ERROR")
       ELSE LET t == Create(s, ch.create)
            IN IF t.ret # "NO_ERROR"
               THEN t
               ELSE generate_and_send_description(t, "DESCRIBE_POST", flags, ch.fits, ch.send)

\* The response sent although the request could not be acknowledged
send_description_response_unacked(s, token, msg_id, desc_flags, ch) ==
    LET s1 == Create(s, ch.create)
        s2 == send_empty_ack(s1, msg_id, ch.ack)
        s3 == Create(s2, ch.create2)
        s4 == Emit(s3, <<"header", "description_response", token>>)
    IN IF s1.ret # "NO_ERROR" THEN s1
       ELSE IF s3.ret # "NO_ERROR" THEN s3
       ELSE generate_and_send_description(s4, "DESCRIBE_RESPONSE", desc_flags,
                                          ch.fits, ch.send)

\* Protocol::send_description_response
send_description_response(s, token, msg_id, desc_flags, ch) ==
    LET s1 == Create(s, ch.create)
        s2 == send_empty_ack(s1, msg_id, ch.ack)
        s3 == Create(s2, ch.create2)
        s4 == Emit(s3, <<"header", "description_response", token>>)
    IN IF s1.ret # "NO_ERROR" THEN s1
       ELSE IF s2.ret # "NO_ERROR" THEN s2
       ELSE IF s3.ret # "NO_ERROR" THEN s3
       ELSE generate_and_send_description(s4, "DESCRIBE_RESPONSE", desc_flags,
                                          ch.fits, ch.send)

\* A token of any length accepted
token_length_raw(m) == m.token_len

\* handle_received_message, "if (token_len > 0 && token_len != sizeof(token_t))"
token_length(m) ==
    IF m.token_len > 0 /\ m.token_len # 4 THEN 0 ELSE m.token_len

\* functions.handle_function_call and variables.handle_request: the handler
\* is given the request and its result is what the call returns.
Delegate(s, handler, msg_id, ok) ==
    Ret(Emit(s, <<"handler", handler, msg_id>>), ErrorOf(ok))

\* handle_received_message, FUNCTION_CALL and VARIABLE_REQUEST
handle_request(s, handler, m, ch) ==
    IF token_length(m) = 0
    THEN Ret(s, "MISSING_REQUEST_TOKEN")
    ELSE Delegate(s, handler, m.id, ch.handler)

\* The error of the ACK kept when DISCARD_SESSION succeeds
handle_key_change_first_error(s, m, ch) ==
    LET s1 == IF m.type = "CON" THEN SendReply(s, "EMPTY_ACK", 0, ch.ack) ELSE s
    IN IF m.len > 7 /\ m.opt = 1
       THEN Ret(Command(s1, "DISCARD_SESSION"),
                IF s1.ret # "NO_ERROR" THEN s1.ret ELSE ErrorOf(ch.command))
       ELSE s1

\* The session discarded for any parameter but 0
handle_key_change_any(s, m, ch) ==
    LET s1 == IF m.type = "CON" THEN SendReply(s, "EMPTY_ACK", 0, ch.ack) ELSE s
    IN IF m.len > 7 /\ m.opt # 0
       THEN Ret(Command(s1, "DISCARD_SESSION"), ErrorOf(ch.command))
       ELSE s1

\* Protocol::handle_key_change.  len is message.length() and opt the byte of
\* the buffer at 7 + (buf[0] & 0xF).
handle_key_change(s, m, ch) ==
    LET s1 == IF m.type = "CON" THEN SendReply(s, "EMPTY_ACK", 0, ch.ack) ELSE s
    IN IF m.len > 7 /\ m.opt = 1
       THEN Ret(Command(s1, "DISCARD_SESSION"), ErrorOf(ch.command))
       ELSE s1

\* The error of the ACK of a HELLO returned
handle_hello_propagating(s, m, ch) ==
    LET s1 == IF m.type = "CON" THEN send_empty_ack(s, m.id, ch.ack) ELSE Ret(s, "NO_ERROR")
    IN IF s1.ret # "NO_ERROR"
       THEN s1
       ELSE Emit(s1, <<"descriptor", "ota_upgrade_status_sent">>)

\* handle_received_message, "case CoAPMessageType::HELLO": what send_empty_ack
\* returns is not read.
handle_hello(s, m, ch) ==
    Ret(Emit(IF m.type = "CON" THEN send_empty_ack(s, m.id, ch.ack) ELSE s,
             <<"descriptor", "ota_upgrade_status_sent">>),
        "NO_ERROR")

\* Protocol::handle_received_message
handle_received_message(s, m, ch) ==
    LET r == IF is_reply(m.type) THEN HandleReply(s, m) ELSE s
    IN CASE m.mt = "DESCRIBE" ->
              send_description_response(r, m.token, m.id, m.desc, ch)
         [] m.mt = "FUNCTION_CALL" -> handle_request(r, "function", m, ch)
         [] m.mt = "VARIABLE_REQUEST" -> handle_request(r, "variable", m, ch)
         [] m.mt = "KEY_CHANGE" -> handle_key_change(r, m, ch)
         [] m.mt = "HELLO" -> handle_hello(r, m, ch)
         [] m.mt = "PING" -> SendReply(r, "EMPTY_ACK", m.id, ch.ack)
         [] OTHER -> Ret(r, "NO_ERROR")

\* --------------------------------------------------------------- event loop

\* The chunked transfer cancelled only when the channel fails to receive
event_loop_step_receive_only(s, elapsed, rcv, m, idle, ch) ==
    LET s1 == update(s, elapsed)
    IN IF ~rcv
       THEN Emit(Ret(s1, ChannelError), <<"chunkedTransfer", "cancel">>)
       ELSE IF m # NoMsg
            THEN handle_received_message(s1, m, ch)
            ELSE Ret(s1, ErrorOf(idle))

\* Protocol::event_loop(CoAPMessageType::Enum&): one step.  elapsed is
\* t - last_ack_handlers_update, rcv the outcome of channel.receive, m the
\* message it delivered (NoMsg: none), idle the outcome of event_loop_idle().
event_loop_step(s, elapsed, rcv, m, idle, ch) ==
    LET s1 == update(s, elapsed)
        s2 == IF ~rcv
              THEN Ret(s1, ChannelError)
              ELSE IF m # NoMsg
                   THEN handle_received_message(s1, m, ch)
                   ELSE Ret(s1, ErrorOf(idle))
    IN IF s2.ret \notin {"NO_ERROR", "HALT"}
       THEN Emit(s2, <<"chunkedTransfer", "cancel">>)
       ELSE s2

\* The message type a step reports: NONE unless a message was dispatched
StepType(rcv, m) == IF rcv THEN m.mt ELSE "NONE"

\* The inputs of one step: a failed receive, an idle step, or a message with
\* the answers of the channel to what its handler sends
StepInputs ==
    {[rcv |-> FALSE, m |-> NoMsg, idle |-> TRUE, ch |-> AllOk]}
    \cup {[rcv |-> TRUE, m |-> NoMsg, idle |-> i, ch |-> AllOk] : i \in BOOLEAN}
    \cup {[rcv |-> TRUE, m |-> m, idle |-> TRUE, ch |-> AllOk] : m \in Replies}
    \cup {[rcv |-> TRUE, m |-> m, idle |-> TRUE, ch |-> ch] :
             m \in Hellos \cup Pings, ch \in AckAnswers}
    \cup {[rcv |-> TRUE, m |-> m, idle |-> TRUE, ch |-> ch] :
             m \in DescribeRequests, ch \in Answers}

\* -------------------------------------------------------------------- calls

NoPrev == [posted |-> FALSE, flags |-> {}, handed |-> 0, elided |-> FALSE]

NoPending ==
    [app |-> INVALID_MESSAGE_HANDLE, sys |-> INVALID_MESSAGE_HANDLE,
     subs |-> INVALID_MESSAGE_HANDLE]

\* The pending ids as a call finds them
Pending ==
    [app |-> app_describe_msg_id, sys |-> system_describe_msg_id,
     subs |-> subscriptions_msg_id]

\* No step of the event loop
NoInput == [rcv |-> TRUE, m |-> NoMsg, idle |-> TRUE, ch |-> AllOk]

\* No wait for a message: the type awaited, the timeout, and whether a step
\* of the loop has run
NoWait == [type |-> "NONE", timeout |-> 0, stepped |-> FALSE]

\* A call and its inputs.  cached0 is the cached descriptor as it was when
\* begin() started; pending0 the pending ids as event_loop() or
\* post_description() found them; prev describes the call before a
\* post_description when that was a post_description(flags, false); old the
\* pending ids the last begin() found, while steps of the event loop follow
\* it; over, in the step after a describe response, the pending ids that
\* response replaced; at the length of the journal of begin() when the last
\* step of hello_response() began.
NoCall ==
    [name |-> "none", est |-> "-", cached0 |-> EmptyDescriptor,
     flags |-> {}, force |-> FALSE, msg |-> NoMsg, prev |-> NoPrev,
     pending0 |-> NoPending, in |-> NoInput, wait |-> NoWait,
     old |-> NoPending, over |-> NoPending, at |-> 0]

\* The messages the call handed to channel.send, which took them
Handed(l) == {i \in 1..Len(l) : l[i][1] = "send" /\ l[i][4]}

\* The pending ids of the previous session kept
begin_reset_keep_ids(s) == [clear(s) EXCEPT !.log = <<>>]

\* begin(), up to channel.establish(): the reset of the previous session
begin_reset(s) ==
    [clear(s) EXCEPT
        !.log = <<>>,
        !.app_describe_msg_id = INVALID_MESSAGE_HANDLE,
        !.system_describe_msg_id = INVALID_MESSAGE_HANDLE,
        !.subscriptions_msg_id = INVALID_MESSAGE_HANDLE]

\* The mask left at ALL whatever the flags
StateFlags_all == ALL

\* begin(): the mask of the comparison on a resumed session
StateFlags ==
    IF DEVICE_INITIATED_DESCRIBE \in protocol_flags
    THEN {SYSTEM_DESCRIBE_CRC, PROTOCOL_FLAGS}
    ELSE ALL

\* Protocol::ping(true): a keepalive ping handed to the channel
ping(s, ok) == SendPlain(s, "PING", ok, FALSE)

\* Protocol::hello: the HELLO message, sent synchronously
hello(s, ok) == SendPlain(s, "HELLO", ok, TRUE)

\* The system describe posted without force
begin_complete_unforced(s, ch) ==
    LET s1 == Emit(s, <<"channel", "notify_established">>)
        s2 == update_protocol_flags(s1)
    IN IF DEVICE_INITIATED_DESCRIBE \in protocol_flags
       THEN post_description(s2, {DESCRIBE_SYSTEM}, FALSE, ch)
       ELSE Ret(s2, "NO_ERROR")

\* SESSION_RESUMED kept through the handshake
begin_complete_keep_resumed(s, ch) ==
    LET s1 == Emit(s, <<"channel", "notify_established">>)
        s2 == update_protocol_flags(s1)
    IN IF DEVICE_INITIATED_DESCRIBE \in protocol_flags
       THEN post_description(s2, {DESCRIBE_SYSTEM}, TRUE, ch)
       ELSE Ret(s2, IF s.log[1] = <<"establish", "SESSION_RESUMED">>
                    THEN "SESSION_RESUMED" ELSE "NO_ERROR")

\* begin(), from "Handshake completed" to its return
begin_complete(s, ch) ==
    LET s1 == Emit(s, <<"channel", "notify_established">>)
        s2 == update_protocol_flags(s1)
    IN IF DEVICE_INITIATED_DESCRIBE \in protocol_flags
       THEN post_description(s2, {DESCRIBE_SYSTEM}, TRUE, ch)
       ELSE Ret(s2, "NO_ERROR")

\* The channel notified and the flags persisted on the fast path as well
resume_return_established(s, error) ==
    LET s1 == update_protocol_flags(Emit(s, <<"channel", "notify_established">>))
    IN Ret(s1, IF s.ret # "NO_ERROR" THEN s.ret ELSE error)

\* SESSION_RESUMED lost on the way out
resume_return_no_error(s, error) ==
    Ret(s, IF s.ret # "NO_ERROR" THEN s.ret ELSE "NO_ERROR")

\* begin(), "Skipping HELLO message": what it returns after the ping
resume_return(s, error) == Ret(s, IF s.ret # "NO_ERROR" THEN s.ret ELSE error)

\* begin(), from its start to the HELLO it sends.  ret is "WAIT" when the
\* call goes on to wait for the HELLO of the cloud.
begin_start(s, est, pingOk, helloOk, ch) ==
    LET s0 == Emit(begin_reset(s), <<"establish", est>>)
    IN IF est \notin {"NO_ERROR", "SESSION_RESUMED"}
       THEN Ret(s0, est)
       ELSE LET s1 == IF est = "SESSION_RESUMED"
                      THEN Command(s0, "MOVE_SESSION")
                      ELSE s0
            IN IF est = "SESSION_RESUMED"
                  /\ equalsTo(s1.cached, app_state_descriptor, StateFlags)
               THEN resume_return(ping(s1, pingOk), est)
               ELSE LET s3 == hello(s1, helloOk)
                    IN IF s3.ret # "NO_ERROR"
                       THEN s3
                       ELSE IF REQUIRE_HELLO_RESPONSE \in protocol_flags
                            THEN Ret(s3, "WAIT")
                            ELSE begin_complete(s3, ch)

\* Protocol::begin
Begin ==
    /\ pc = "idle"
    /\ \E est \in {"NO_ERROR", "SESSION_RESUMED", ChannelError},
          sent \in BOOLEAN, ch \in PostAnswers :
         LET s == begin_start(Cur, est, sent, sent, ch)
         IN /\ Store(s)
            /\ pc' = IF s.ret = "WAIT" THEN "hello_wait" ELSE "idle"
            /\ result' = IF s.ret = "WAIT" THEN "PENDING" ELSE s.ret
            /\ call' = [NoCall EXCEPT !.name = "begin", !.est = est,
                                      !.cached0 = cached,
                                      !.pending0 = Pending]
    /\ waited' = 0
    /\ UNCHANGED <<protocol_flags, selector, doc>>

\* The loop that never times out
expired_never(elapsed, timeout) == elapsed < 0

\* A wrong comparison at the end of the loop
expired_inverted(elapsed, timeout) == elapsed < timeout

\* event_loop(type, timeout), "while ((callbacks.millis() - start) < timeout)":
\* the loop ends
expired(elapsed, timeout) == ~(elapsed < timeout)

\* hello_response(): one iteration of event_loop(CoAPMessageType::HELLO, 4000),
\* and the rest of begin() when the loop ends.  d ticks pass between the last
\* reading of the clock and the readings of this iteration.
HelloWait ==
    /\ pc = "hello_wait"
    /\ \E in \in StepInputs, d \in 0..MaxElapsed, ch \in PostAnswers :
         /\ in.m \in Inbound \ Hellos => Len(log) < MaxWaitLog
         /\ in.m \notin Hellos => ch = AllOk
         /\ LET s == event_loop_step(Cur, d, in.rcv, in.m, in.idle, in.ch)
                done == s.ret = "NO_ERROR" /\ StepType(in.rcv, in.m) = "HELLO"
                late == expired((waited + d) * TickMs, HELLO_TIMEOUT)
                f == IF done THEN begin_complete(s, ch) ELSE s
            IN /\ Store(f)
               /\ pc' = IF s.ret = "NO_ERROR" /\ ~done /\ ~late
                        THEN "hello_wait" ELSE "idle"
               /\ waited' = IF s.ret = "NO_ERROR" /\ ~done THEN waited + d ELSE waited
               /\ result' = IF s.ret # "NO_ERROR" THEN s.ret
                            ELSE IF done THEN f.ret
                            ELSE IF late THEN "MESSAGE_TIMEOUT"
                            ELSE "PENDING"
               /\ call' = [call EXCEPT !.msg = in.m, !.in = in, !.at = Len(log)]
    /\ UNCHANGED <<protocol_flags, selector, doc>>

\* The types event_loop(type, timeout) is asked to wait for, and the timeouts
WaitTypes == {"HELLO", "PING"}

Timeouts == {0, TickMs, HELLO_TIMEOUT}

\* What a step of the loop receives: nothing, a HELLO or a PING
WaitInputs == {in \in StepInputs : in.m \in {NoMsg} \cup Hellos \cup Pings}

\* Protocol::event_loop(CoAPMessageType::Enum, system_tick_t): the call, up
\* to "system_tick_t start = callbacks.millis()"
Wait ==
    /\ pc = "idle"
    /\ \E type \in WaitTypes, timeout \in Timeouts :
         call' = [NoCall EXCEPT
                    !.name = "event_loop_wait",
                    !.wait = [type |-> type, timeout |-> timeout, stepped |-> FALSE]]
    /\ pc' = "wait"
    /\ waited' = 0
    /\ log' = <<>>
    /\ result' = "PENDING"
    /\ UNCHANGED <<protocol_flags, selector, app_describe_msg_id,
                   system_describe_msg_id, subscriptions_msg_id, ack_handlers,
                   fired, doc, cached, nextId>>

\* One iteration of its do ... while, in which the clock advances by one of
\* the ticks of D
WaitStepBy(D) ==
    /\ pc = "wait"
    /\ \E in \in WaitInputs, d \in D :
         /\ (in.m # NoMsg /\ in.m.mt # call.wait.type) => Len(log) < MaxWaitLog
         /\ LET s == event_loop_step(Cur, d, in.rcv, in.m, in.idle, in.ch)
                seen == StepType(in.rcv, in.m) = call.wait.type
                late == expired((waited + d) * TickMs, call.wait.timeout)
            IN /\ Store(s)
               /\ result' = IF s.ret # "NO_ERROR" THEN s.ret
                            ELSE IF seen THEN "NO_ERROR"
                            ELSE IF late THEN "MESSAGE_TIMEOUT"
                            ELSE "PENDING"
               /\ pc' = IF result' = "PENDING" THEN "wait" ELSE "idle"
               /\ waited' = waited + d
               /\ call' = [call EXCEPT !.wait.stepped = TRUE, !.in = in, !.msg = in.m]
    /\ UNCHANGED <<protocol_flags, selector, doc>>

WaitStep == WaitStepBy(0..MaxElapsed)

\* An iteration during which the millisecond clock advances
ClockAdvances == WaitStepBy(1..MaxElapsed)

\* The time that may have passed since the last step of the loop; with no
\* completion handler pending the step does not observe it.
Passed == IF DOMAIN ack_handlers = {} THEN {0} ELSE 0..MaxElapsed

\* The pending id of a flavor that the describe response just sent replaced
Replaced(id0, id) ==
    IF call.name = "event_loop" /\ call.msg.mt = "DESCRIBE" /\ result = "NO_ERROR"
       /\ id # id0
    THEN id0
    ELSE INVALID_MESSAGE_HANDLE

\* Protocol::event_loop(CoAPMessageType::Enum&), called by the system loop
EventLoop ==
    /\ pc = "idle"
    /\ \E in \in StepInputs, d \in Passed :
         LET s == event_loop_step([Cur EXCEPT !.log = <<>>], d, in.rcv, in.m, in.idle, in.ch)
         IN /\ Store(s)
            /\ result' = s.ret
            /\ call' = [NoCall EXCEPT !.name = "event_loop", !.msg = in.m,
                                     !.pending0 = Pending,
                                     !.old = IF call.name = "begin"
                                             THEN call.pending0
                                             ELSE call.old,
                                     !.over =
                                        [app |-> Replaced(call.pending0.app,
                                                          app_describe_msg_id),
                                         sys |-> Replaced(call.pending0.sys,
                                                          system_describe_msg_id),
                                         subs |-> INVALID_MESSAGE_HANDLE]]
    /\ UNCHANGED <<pc, protocol_flags, selector, waited, doc>>

\* Protocol::post_description, called by the system
PostDescription ==
    /\ pc = "idle"
    /\ \E desc_flags \in SUBSET DESCRIBE_DEFAULT \ {{}}, force \in BOOLEAN,
          ch \in PostAnswers :
         LET s == post_description([Cur EXCEPT !.log = <<>>], desc_flags, force, ch)
         IN /\ Store(s)
            /\ result' = s.ret
            /\ call' = [NoCall EXCEPT
                          !.name = "post_description", !.flags = desc_flags,
                          !.force = force,
                          !.pending0 = Pending,
                          !.prev = IF call.name = "post_description" /\ ~call.force
                                   THEN [posted |-> TRUE, flags |-> call.flags,
                                         handed |-> Cardinality(Handed(log)),
                                         elided |-> log = <<>>]
                                   ELSE NoPrev]
    /\ UNCHANGED <<pc, protocol_flags, selector, waited, doc>>

\* The classes of the code of a reply
Classes == {0, 2, 3, 4, 5}

\* Every reply: an ACK with a code of any class, a RESET with any code
AllReplies ==
    {Msg("ERROR", "ACK", id, cls, 0, {}) : id \in MsgIds, cls \in Classes}
    \cup {Msg("ERROR", "RESET", id, cls, 0, {}) : id \in MsgIds, cls \in {0, 2}}

\* Requests for a function call or a variable, with a token of 0, 1 or 4 bytes
Requests ==
    {Msg(mt, "CON", 1, 0, token_len, {}) :
        mt \in {"FUNCTION_CALL", "VARIABLE_REQUEST"}, token_len \in {0, 1, 4}}

\* Key changes: confirmable or not, of 7 or 8 bytes, with the byte of the
\* parameter 0, 1 or 2
KeyChanges ==
    {[Msg("KEY_CHANGE", type, 1, 0, 0, {}) EXCEPT !.len = len, !.opt = opt] :
        type \in {"CON", "NON"}, len \in {7, 8}, opt \in {0, 1, 2}}

PingsWithId == {Msg("PING", type, id, 0, 0, {}) : type \in {"CON", "NON"}, id \in MsgIds}

\* The tokens of the requests of the cloud
Tokens == {7, 9}

DescribeRequestsWithId ==
    {[Msg("DESCRIBE", "CON", id, 0, 4, desc) EXCEPT !.token = token] :
        id \in MsgIds, desc \in {DESCRIBE_DEFAULT, {DESCRIBE_SYSTEM}},
        token \in Tokens}

\* The inputs of one step that dispatches any of these messages
DispatchInputs ==
    {[rcv |-> FALSE, m |-> NoMsg, idle |-> TRUE, ch |-> AllOk]}
    \cup {[rcv |-> TRUE, m |-> NoMsg, idle |-> i, ch |-> AllOk] : i \in BOOLEAN}
    \cup {[rcv |-> TRUE, m |-> m, idle |-> TRUE, ch |-> AllOk] : m \in AllReplies}
    \cup {[rcv |-> TRUE, m |-> m, idle |-> TRUE, ch |-> [AllOk EXCEPT !.handler = h]] :
             m \in Requests, h \in BOOLEAN}
    \cup {[rcv |-> TRUE, m |-> m, idle |-> TRUE,
           ch |-> [AllOk EXCEPT !.ack = a, !.command = c]] :
             m \in KeyChanges, a \in BOOLEAN, c \in BOOLEAN}
    \cup {[rcv |-> TRUE, m |-> m, idle |-> TRUE, ch |-> ch] :
             m \in Hellos \cup PingsWithId, ch \in AckAnswers}
    \cup {[rcv |-> TRUE, m |-> m, idle |-> TRUE, ch |-> ch] :
             m \in DescribeRequestsWithId,
             ch \in Answers \cup {[AllOk EXCEPT !.fits = FALSE]}}

\* Protocol::event_loop(CoAPMessageType::Enum&), called by the system loop,
\* with any of these messages received
Dispatch ==
    /\ pc = "idle"
    /\ \E in \in DispatchInputs, d \in Passed :
         LET s == event_loop_step([Cur EXCEPT !.log = <<>>], d, in.rcv, in.m, in.idle, in.ch)
         IN /\ Store(s)
            /\ pc' = IF s.ret = "HALT" THEN "halted" ELSE "idle"
            /\ result' = s.ret
            /\ call' = [NoCall EXCEPT !.name = "event_loop", !.msg = in.m,
                                     !.pending0 = Pending, !.in = in]
    /\ UNCHANGED <<protocol_flags, selector, waited, doc>>

\* A confirmable request sent with a completion handler: the handler is
\* registered under the id the channel gave the message.
SendRequest ==
    /\ pc = "idle"
    /\ nextId <= MaxId
    /\ Cardinality(DOMAIN ack_handlers) < MaxPending
    /\ ack_handlers' = [i \in DOMAIN ack_handlers \cup {nextId} |->
                          IF i = nextId THEN AckTimeoutTicks ELSE ack_handlers[i]]
    /\ fired' = [i \in DOMAIN fired \cup {nextId} |->
                   IF i = nextId THEN 0 ELSE fired[i]]
    /\ nextId' = nextId + 1
    /\ log' = <<>>
    /\ call' = [NoCall EXCEPT !.name = "send_request"]
    /\ result' = "NO_ERROR"
    /\ UNCHANGED <<pc, protocol_flags, selector, app_describe_msg_id,
                   system_describe_msg_id, subscriptions_msg_id,
                   waited, doc, cached>>

\* The subscriptions sent to the cloud: the id of the last message is kept in
\* subscriptions_msg_id.
SendSubscriptions ==
    /\ pc = "idle"
    /\ nextId <= MaxId
    /\ subscriptions_msg_id' = nextId
    /\ nextId' = nextId + 1
    /\ log' = <<>>
    /\ call' = [NoCall EXCEPT !.name = "send_subscriptions"]
    /\ result' = "NO_ERROR"
    /\ UNCHANGED <<pc, protocol_flags, selector, app_describe_msg_id,
                   system_describe_msg_id, ack_handlers, fired,
                   waited, doc, cached>>

\* The application registers or drops a function or a variable: its describe
\* document, and so its CRC, changes.
DocChange ==
    /\ pc = "idle"
    /\ doc' = [doc EXCEPT ![APP_DESCRIBE_CRC] = 3 - @]
    /\ log' = <<>>
    /\ call' = [NoCall EXCEPT !.name = "doc_change"]
    /\ result' = "NO_ERROR"
    /\ UNCHANGED <<pc, protocol_flags, selector, app_describe_msg_id,
                   system_describe_msg_id, subscriptions_msg_id, ack_handlers, fired,
                   waited, cached, nextId>>

\* The session data the channel holds when the engine is constructed: none,
\* or the descriptor an earlier run of the same firmware persisted.
InitialCached(flags) ==
    {EmptyDescriptor}
    \cup {[has |-> ALL, crc |-> [f \in CrcFields |-> c], flags |-> flags] :
            c \in CrcValues}

\* The engine as Protocol::init leaves it, in a configuration: the flags, the
\* descriptor callback installed or not, and the session data of the channel
Configured ==
    /\ pc = "idle"
    /\ app_describe_msg_id = INVALID_MESSAGE_HANDLE
    /\ system_describe_msg_id = INVALID_MESSAGE_HANDLE
    /\ subscriptions_msg_id = INVALID_MESSAGE_HANDLE
    /\ ack_handlers = <<>>
    /\ waited = 0
    /\ doc = [f \in CrcFields |-> 1]
    /\ nextId = 1
    /\ log = <<>>
    /\ fired = <<>>
    /\ call = NoCall
    /\ result = "NO_ERROR"

NoSession == {EmptyDescriptor}

\* The handshake: begin() in every configuration, on every session the channel
\* may hold, with the documents changing between two connections.
InitHandshake ==
    /\ protocol_flags \in SUBSET ProtocolFlags
    /\ selector \in BOOLEAN
    /\ cached \in InitialCached(protocol_flags)
    /\ Configured

NextHandshake ==
    \/ Begin
    \/ HelloWait
    \/ DocChange

SpecHandshake == InitHandshake /\ [][NextHandshake]_vars

\* The describes: what the system posts and what the cloud asks for and
\* answers between two calls of begin(), in the configurations where begin()
\* does not wait for the HELLO of the cloud.
InitDescribe ==
    /\ protocol_flags \in {{}, {DEVICE_INITIATED_DESCRIBE}}
    /\ selector \in BOOLEAN
    /\ cached \in NoSession
    /\ Configured

NextDescribe ==
    \/ Begin
    \/ EventLoop
    \/ PostDescription
    \/ DocChange

SpecDescribe == InitDescribe /\ [][NextDescribe]_vars

\* The pending ids: describes posted and requested while subscriptions are
\* outstanding, in one session.
InitPending ==
    /\ protocol_flags = {}
    /\ selector \in BOOLEAN
    /\ cached \in NoSession
    /\ Configured

NextPending ==
    \/ EventLoop
    \/ PostDescription
    \/ SendSubscriptions

SpecPending == InitPending /\ [][NextPending]_vars

\* The replies: requests sent with a completion handler, the subscriptions,
\* the system loop and begin().
InitRegistry ==
    /\ protocol_flags = {}
    /\ selector \in BOOLEAN
    /\ cached \in NoSession
    /\ Configured

NextRegistry ==
    \/ Begin
    \/ EventLoop
    \/ SendRequest
    \/ SendSubscriptions

SpecRegistry == InitRegistry /\ [][NextRegistry]_vars

\* The dispatch: every message the engine handles itself, with requests
\* pending in the registry.
InitDispatch ==
    /\ protocol_flags = {}
    /\ selector \in BOOLEAN
    /\ cached \in NoSession
    /\ Configured

NextDispatch ==
    \/ Dispatch
    \/ SendRequest

SpecDispatch == InitDispatch /\ [][NextDispatch]_vars

\* The wait for a message, with the millisecond clock that keeps advancing.
InitWait ==
    /\ protocol_flags = {}
    /\ selector \in BOOLEAN
    /\ cached \in NoSession
    /\ Configured

NextWait ==
    \/ Wait
    \/ WaitStep

SpecWait == InitWait /\ [][NextWait]_vars /\ WF_vars(ClockAdvances)

\* --------------------------------------------------------------- properties

IsCommand(e, cmd) == e[1] = "command" /\ e[2] = cmd

IsSend(e, kind) == e[1] = "send" /\ e[2] = kind

IsPersist(e) ==
    e[1] = "descriptor" /\ e[2] # "ota_upgrade_status_sent"
    /\ e[3] \in {"PERSIST", "COMPUTE_AND_PERSIST"}

PersistAt == {i \in DOMAIN log : IsPersist(log[i])}

IsPersistOf(e, sel, op) == e = <<"descriptor", sel, op>>

IsEstablished(e) == e = <<"channel", "notify_established">>

EstablishedAt == {i \in DOMAIN log : IsEstablished(log[i])}

IsHelloReceived(e) == e = <<"descriptor", "ota_upgrade_status_sent">>

HelloReceivedAt == {i \in DOMAIN log : IsHelloReceived(log[i])}

IsHello(e) == IsSend(e, "HELLO")

HelloAt == {i \in DOMAIN log : IsHello(log[i])}

IsPing(e) == IsSend(e, "PING")

PingAt == {i \in DOMAIN log : IsPing(log[i])}

IsMove(e) == IsCommand(e, "MOVE_SESSION")

MoveAt == {i \in DOMAIN log : IsMove(log[i])}

IsPost(e) == IsSend(e, "DESCRIBE_POST")

PostAt == {i \in DOMAIN log : IsPost(log[i])}

IsFailure(e) == (e[1] = "send" /\ ~e[4]) \/ (e[1] = "create" /\ e[2] # "NO_ERROR")

FailureAt == {i \in DOMAIN log : IsFailure(log[i])}

BeginReturned == call.name = "begin" /\ result # "PENDING"

\* The fields begin() compares on a resumed session, from the flags
Selected ==
    IF DEVICE_INITIATED_DESCRIBE \in protocol_flags
    THEN {SYSTEM_DESCRIBE_CRC, PROTOCOL_FLAGS}
    ELSE {SYSTEM_DESCRIBE_CRC, APP_DESCRIBE_CRC, SUBSCRIPTIONS_CRC, PROTOCOL_FLAGS}

\* Field f is set in the cached descriptor begin() found and in the current
\* one, with the same value.  The current descriptor holds every field when
\* the descriptor callback is installed, and none when it is not.
SetAndEqual(f) ==
    /\ f \in call.cached0.has
    /\ selector
    /\ IF f = PROTOCOL_FLAGS
       THEN call.cached0.flags = protocol_flags
       ELSE call.cached0.crc[f] = doc[f]

\* begin() ran on a resumed session whose cached descriptor equals the
\* current one under the mask
ResumedUnchanged ==
    /\ call.name = "begin"
    /\ call.est = "SESSION_RESUMED"
    /\ \A f \in Selected : SetAndEqual(f)

\* C1 as stated: begin() on a resumed session with an unchanged descriptor
\* issues one MOVE_SESSION, sends no HELLO, issues one ping and returns
\* SESSION_RESUMED.
C1_AlwaysSessionResumed ==
    ResumedUnchanged =>
        /\ Cardinality(MoveAt) = 1
        /\ HelloAt = {}
        /\ Cardinality(PingAt) = 1
        /\ result = "SESSION_RESUMED"

\* C1 amended: begin() on a resumed session with an unchanged descriptor
\* issues one MOVE_SESSION, sends no HELLO, issues one ping, and returns
\* SESSION_RESUMED when the ping was sent and the error of the ping when it
\* was not; it never returns NO_ERROR.
C1_ResumeFastPath ==
    ResumedUnchanged =>
        /\ Cardinality(MoveAt) = 1
        /\ HelloAt = {}
        /\ Cardinality(PingAt) = 1
        /\ \A i \in PingAt :
             result = IF log[i][4] THEN "SESSION_RESUMED" ELSE ChannelError
        /\ result # "NO_ERROR"

C1_Witness ==
    /\ ResumedUnchanged
    /\ result = "SESSION_RESUMED"
    /\ PingAt # {}

C8_HelloRequired ==
    (call.name = "begin" /\ REQUIRE_HELLO_RESPONSE \in protocol_flags) =>
        /\ pc = "hello_wait" => waited * TickMs < HELLO_TIMEOUT
        /\ result = "MESSAGE_TIMEOUT" =>
             /\ waited * TickMs >= HELLO_TIMEOUT
             /\ HelloReceivedAt = {}
        /\ (BeginReturned /\ HelloAt # {} /\ HelloReceivedAt = {}) =>
             /\ result \notin {"NO_ERROR", "SESSION_RESUMED"}
             /\ EstablishedAt = {}
             /\ PersistAt = {}
             /\ PostAt = {}
        /\ \A n \in EstablishedAt :
             \E h \in HelloReceivedAt : h < n

C8_Witness ==
    /\ call.name = "begin"
    /\ REQUIRE_HELLO_RESPONSE \in protocol_flags
    /\ result = "MESSAGE_TIMEOUT"
    /\ HelloAt # {}

IsFlagsPersist(e) == IsPersistOf(e, "PROTOCOL_FLAGS", "PERSIST")

FlagsPersistAt == {i \in DOMAIN log : IsFlagsPersist(log[i])}

IsCreate(e) == e[1] = "create"

CreateAt == {i \in DOMAIN log : IsCreate(log[i])}

FailedAfterEstablished ==
    {i \in FailureAt : \E n \in EstablishedAt : n < i}

\* C10: begin() returns SESSION_RESUMED only on the resumed session whose
\* HELLO was skipped and whose ping was sent; on the HELLO path, resumed
\* session or not, it returns NO_ERROR exactly when the handshake went
\* through, the channel notified and nothing failed after that.
C10_ResumedOnlyOnFastPath ==
    /\ result = "SESSION_RESUMED" =>
         /\ call.name = "begin"
         /\ call.est = "SESSION_RESUMED"
         /\ HelloAt = {}
         /\ \E i \in PingAt : log[i][4]
    /\ (BeginReturned /\ HelloAt # {}) =>
         /\ result # "SESSION_RESUMED"
         /\ result = "NO_ERROR" <=>
              (EstablishedAt # {} /\ FailedAfterEstablished = {})

\* The session was resumed, the descriptor had changed, HELLO went through
C10_Witness ==
    /\ BeginReturned
    /\ call.est = "SESSION_RESUMED"
    /\ HelloAt # {}
    /\ EstablishedAt # {}
    /\ result = "NO_ERROR"

\* C2 as stated: every request registered with a completion handler has had
\* exactly one outcome once it has left the registry, and none before.
C2_ExactlyOneOutcome ==
    \A id \in DOMAIN fired :
        fired[id] = IF id \in DOMAIN ack_handlers THEN 0 ELSE 1

IsSave(e) == IsCommand(e, "SAVE_SESSION")

SaveAt == {i \in DOMAIN log : IsSave(log[i])}

IsLoad(e) == IsCommand(e, "LOAD_SESSION")

LoadAt == {i \in DOMAIN log : IsLoad(log[i])}

\* C5: in what a call does, every PERSIST or COMPUTE_AND_PERSIST of the
\* descriptor callback has SAVE_SESSION right before it and LOAD_SESSION right
\* after it, and every SAVE_SESSION and LOAD_SESSION belongs to such a triple,
\* so that they are balanced and never nested.
C5_PersistInsideEnvelope ==
    /\ \A i \in PersistAt :
         /\ 1 < i /\ i < Len(log)
         /\ IsSave(log[i - 1])
         /\ IsLoad(log[i + 1])
    /\ \A i \in SaveAt :
         /\ i + 2 <= Len(log)
         /\ IsPersist(log[i + 1])
         /\ IsLoad(log[i + 2])
    /\ \A i \in LoadAt :
         /\ 3 <= i
         /\ IsSave(log[i - 2])
         /\ IsPersist(log[i - 1])

\* One reply persisted two CRCs, one envelope after the other
C5_Witness ==
    /\ call.name = "event_loop"
    /\ Cardinality(PersistAt) = 2
    /\ Cardinality(SaveAt) = 2

IsDescribeSend(e) ==
    e[1] = "send" /\ e[2] \in {"DESCRIBE_POST", "DESCRIBE_RESPONSE"}

DescribeSendAt == {i \in DOMAIN log : IsDescribeSend(log[i])}

\* The describes of flavor f the call sent
DescribeSent(f) == {i \in DescribeSendAt : log[i][4] /\ f \in log[i][6]}

PendingOf(f) ==
    IF f = DESCRIBE_APPLICATION THEN app_describe_msg_id ELSE system_describe_msg_id

Pending0Of(f) ==
    IF f = DESCRIBE_APPLICATION THEN call.pending0.app ELSE call.pending0.sys

IsReplyTo(id) ==
    call.name = "event_loop" /\ is_reply(call.msg.type) /\ call.msg.id = id

Needed(flags) ==
    {f \in flags : ~(/\ selector
                     /\ FlavorField(f) \in cached.has
                     /\ cached.crc[FlavorField(f)] = doc[FlavorField(f)])}

SecondPost ==
    /\ call.name = "post_description"
    /\ ~call.force
    /\ call.prev.posted
    /\ call.prev.flags = call.flags

\* C4 as stated: of two post_description(flags, false) in succession the
\* first hands a message to channel.send, and the second does nothing and
\* returns NO_ERROR.
C4_SecondPostSendsNothing ==
    (SecondPost /\ call.prev.handed = 1) =>
        /\ log = <<>>
        /\ result = "NO_ERROR"

\* C4: post_description(flags, false) does nothing and returns NO_ERROR
\* exactly when the cached CRC of every flavor asked for is set and equals
\* the current one, and otherwise creates and sends one message for the
\* flavors that differ; the second of two such calls in succession decides as
\* the first did; and an ACK of a pending describe, with the descriptor
\* callback installed, leaves the cached CRC of its flavor equal to the
\* current one.
C4_PostElidedIffCacheMatches ==
    /\ (call.name = "post_description" /\ ~call.force) =>
         /\ (Needed(call.flags) = {}) <=> (log = <<>>)
         /\ log = <<>> => result = "NO_ERROR"
         /\ log # <<>> =>
              /\ IsCreate(log[1])
              /\ IF log[1][2] = "NO_ERROR"
                 THEN /\ Len(log) = 2
                      /\ IsPost(log[2])
                      /\ log[2][6] = Needed(call.flags)
                 ELSE Len(log) = 1 /\ result = log[1][2]
    /\ SecondPost => ((log = <<>>) <=> call.prev.elided)
    /\ \A f \in DESCRIBE_DEFAULT :
         (IsReplyTo(Pending0Of(f)) /\ call.msg.type = "ACK" /\ selector) =>
             Needed({f}) = {}

\* The second of two posts in succession, both sent
C4_Witness ==
    /\ SecondPost
    /\ call.prev.handed = 1
    /\ ~call.prev.elided
    /\ \E q \in PostAt : log[q][4]

EnvelopeOf(sel, op) ==
    <<<<"command", "SAVE_SESSION">>, <<"descriptor", sel, op>>,
      <<"command", "LOAD_SESSION">>>>

\* What a reply makes the engine do after the completion handlers
AfterRegistry == SubSeq(log, 2, Len(log))

AckOf(id) == IsReplyTo(id) /\ call.msg.type = "ACK"

\* The envelopes of the describe CRCs an ACK calls for
DescribeEnvelopes(installed) ==
    (IF AckOf(call.pending0.app) /\ installed
     THEN EnvelopeOf("DESCRIBE_APP", "COMPUTE_AND_PERSIST") ELSE <<>>)
    \o (IF AckOf(call.pending0.sys) /\ installed
        THEN EnvelopeOf("DESCRIBE_SYSTEM", "COMPUTE_AND_PERSIST") ELSE <<>>)

SubscriptionsEnvelope(installed) ==
    IF AckOf(call.pending0.subs) /\ installed
    THEN EnvelopeOf("SUBSCRIPTIONS", "PERSIST") ELSE <<>>

\* C6 as stated: an ACK with the id of a pending describe clears that id and
\* issues SAVE_SESSION, COMPUTE_AND_PERSIST of its flavor, LOAD_SESSION, the
\* application describe first when the id is that of both; a reply with the
\* id of no pending message issues none of these.
C6_AckAlwaysPersists ==
    (call.name = "event_loop" /\ is_reply(call.msg.type)) =>
        /\ \A f \in DESCRIBE_DEFAULT :
             AckOf(Pending0Of(f)) => PendingOf(f) = INVALID_MESSAGE_HANDLE
        /\ (AckOf(call.pending0.app) \/ AckOf(call.pending0.sys)) =>
             AfterRegistry = DescribeEnvelopes(TRUE)
        /\ call.msg.id \notin {call.pending0.app, call.pending0.sys, call.pending0.subs}
             => AfterRegistry = <<>>

\* C6: with the descriptor callback installed an ACK with the id of a pending
\* describe clears that id and issues SAVE_SESSION, COMPUTE_AND_PERSIST of
\* its flavor, LOAD_SESSION, the application describe first when the id is
\* that of both; without the callback it only clears the id.  A RESET clears
\* the id and persists nothing; a reply with the id of no pending message
\* changes no pending id and persists nothing.
C6_AckPersistsWhenInstalled ==
    (call.name = "event_loop" /\ is_reply(call.msg.type)) =>
        /\ \A f \in DESCRIBE_DEFAULT :
             PendingOf(f) = IF IsReplyTo(Pending0Of(f))
                            THEN INVALID_MESSAGE_HANDLE
                            ELSE Pending0Of(f)
        /\ AfterRegistry = DescribeEnvelopes(selector) \o SubscriptionsEnvelope(selector)
        /\ result = "NO_ERROR"

\* One ACK for the describe of both flavors, each persisted in its envelope
C6_Witness ==
    /\ AckOf(call.pending0.app)
    /\ AckOf(call.pending0.sys)
    /\ AfterRegistry = EnvelopeOf("DESCRIBE_APP", "COMPUTE_AND_PERSIST")
                       \o EnvelopeOf("DESCRIBE_SYSTEM", "COMPUTE_AND_PERSIST")

\* A step of the event loop that received message of type mt
Received(mt) == call.name = "event_loop" /\ call.in.rcv /\ call.msg.mt = mt

IsRegistry(e) == e[1] = "registry"

RegistryAt == {i \in DOMAIN log : IsRegistry(log[i])}

\* What the registry is told for a reply
Outcome(m) ==
    IF m.type = "RESET" THEN "SYSTEM_ERROR_COAP_5XX"
    ELSE CASE m.cls = 2 -> "setResult"
           [] m.cls = 4 -> "SYSTEM_ERROR_COAP_4XX"
           [] m.cls = 5 -> "SYSTEM_ERROR_COAP_5XX"
           [] OTHER -> "SYSTEM_ERROR_COAP"

\* C11: a received ACK or RESET makes the engine tell the registry once,
\* first of all, with the id of the message: setResult for a code of class 2,
\* setError COAP_4XX for class 4, COAP_5XX for class 5 and for every RESET,
\* the generic COAP error for any other class; a CON or NON message tells the
\* registry nothing.
C11_ReplyNotifiesRegistryOnce ==
    (call.name = "event_loop" /\ call.in.rcv /\ call.msg # NoMsg) =>
        IF is_reply(call.msg.type)
        THEN /\ RegistryAt = {1}
             /\ log[1] = <<"registry", Outcome(call.msg), call.msg.id>>
        ELSE RegistryAt = {}

\* A RESET that carries a success code fails the pending request
C11_Witness ==
    /\ call.name = "event_loop"
    /\ call.msg.type = "RESET"
    /\ call.msg.cls = 2
    /\ call.msg.id \in DOMAIN fired
    /\ fired[call.msg.id] = 1
    /\ log[1][2] = "SYSTEM_ERROR_COAP_5XX"

IsHandler(e) == e[1] = "handler"

HandlerAt == {i \in DOMAIN log : IsHandler(log[i])}

IsAnySend(e) == e[1] = "send"

AnySendAt == {i \in DOMAIN log : IsAnySend(log[i])}

\* The handler of a request
HandlerOf(mt) == IF mt = "FUNCTION_CALL" THEN "function" ELSE "variable"

\* C12: a FUNCTION_CALL or VARIABLE_REQUEST whose token is not of 4 bytes
\* returns MISSING_REQUEST_TOKEN, with no handler invoked and nothing sent;
\* with a token of 4 bytes its handler is invoked once, with the id of the
\* request, and the result of the handler is returned.
C12_RequestNeedsToken ==
    \A mt \in {"FUNCTION_CALL", "VARIABLE_REQUEST"} :
        Received(mt) =>
            IF call.msg.token_len = 4
            THEN /\ HandlerAt = {1}
                 /\ log[1] = <<"handler", HandlerOf(mt), call.msg.id>>
                 /\ result = ErrorOf(call.in.ch.handler)
            ELSE /\ result = "MISSING_REQUEST_TOKEN"
                 /\ HandlerAt = {}
                 /\ AnySendAt = {}

\* A token of one byte is taken as no token
C12_Witness ==
    /\ Received("VARIABLE_REQUEST")
    /\ call.msg.token_len = 1
    /\ result = "MISSING_REQUEST_TOKEN"

IsEmptyAck(e) == IsSend(e, "EMPTY_ACK")

EmptyAckAt == {i \in DOMAIN log : IsEmptyAck(log[i])}

IsDiscard(e) == IsCommand(e, "DISCARD_SESSION")

DiscardAt == {i \in DOMAIN log : IsDiscard(log[i])}

\* C13: on a KEY_CHANGE one empty ACK is sent exactly when the message is
\* confirmable, DISCARD_SESSION is issued once exactly when the message is
\* longer than 7 bytes and the byte of the parameter is 1, and the ACK comes
\* before DISCARD_SESSION.
C13_KeyChangeAckThenDiscard ==
    Received("KEY_CHANGE") =>
        /\ Cardinality(EmptyAckAt) = IF call.msg.type = "CON" THEN 1 ELSE 0
        /\ Cardinality(DiscardAt) =
             IF call.msg.len > 7 /\ call.msg.opt = 1 THEN 1 ELSE 0
        /\ \A a \in EmptyAckAt, d \in DiscardAt : a < d

\* A confirmable key change that discards the session
C13_Witness ==
    /\ Received("KEY_CHANGE")
    /\ EmptyAckAt # {}
    /\ DiscardAt # {}

IsResponse(e) == IsSend(e, "DESCRIBE_RESPONSE")

ResponseAt == {i \in DOMAIN log : IsResponse(log[i])}

IsHeader(e) == e[1] = "header"

HeaderAt == {i \in DOMAIN log : IsHeader(log[i])}

\* C14: on a DESCRIBE request the engine first sends one empty ACK with the
\* id of the request, and a response only after that ACK was sent, built
\* under the token of the request; when a create or the ACK fails the error
\* is returned and no response is built or sent.
C14_AckBeforeResponse ==
    Received("DESCRIBE") =>
        /\ Cardinality(EmptyAckAt) <= 1
        /\ \A a \in EmptyAckAt : log[a][3] = call.msg.id
        /\ Cardinality(ResponseAt) <= 1
        /\ \A r \in ResponseAt :
             /\ \E a \in EmptyAckAt : a < r /\ log[a][4]
             /\ \E h \in HeaderAt : h < r
        /\ \A h \in HeaderAt :
             /\ log[h][3] = call.msg.token
             /\ \E a \in EmptyAckAt : a < h /\ log[a][4]
        /\ (call.in.ch.create /\ call.in.ch.create2 /\ call.in.ch.ack /\ call.in.ch.fits)
             => (EmptyAckAt # {} /\ ResponseAt # {})
        /\ ~(call.in.ch.create /\ call.in.ch.ack /\ call.in.ch.create2) =>
             /\ ResponseAt = {}
             /\ HeaderAt = {}
             /\ result = ChannelError

\* The ACK of the request could not be sent
C14_Witness ==
    /\ Received("DESCRIBE")
    /\ \E a \in EmptyAckAt : ~log[a][4]
    /\ ResponseAt = {}
    /\ result = ChannelError

Waiting == call.name = "event_loop_wait"

\* C15: event_loop(type, timeout) returns NO_ERROR only when its last step
\* observed the awaited type, returns the error of a step at once,
\* returns MESSAGE_TIMEOUT only when timeout ms or more have passed since
\* the call, goes on only while less have passed, never returns without a
\* step, and, the clock advancing, always returns.
C15_WaitReturns ==
    /\ [](Waiting =>
            /\ pc = "idle" => call.wait.stepped
            /\ (pc = "idle" /\ result = "NO_ERROR") =>
                 (call.in.rcv /\ call.msg.mt = call.wait.type)
            /\ (pc = "idle" /\ result \notin {"NO_ERROR", "MESSAGE_TIMEOUT"}) =>
                 /\ result \in {ChannelError}
                 /\ log[Len(log)] = <<"chunkedTransfer", "cancel">>
            /\ (pc = "idle" /\ result = "MESSAGE_TIMEOUT") =>
                 /\ waited * TickMs >= call.wait.timeout
                 /\ ~(call.in.rcv /\ call.msg.mt = call.wait.type)
            /\ pc = "wait" <=> result = "PENDING"
            /\ (pc = "wait" /\ call.wait.stepped) => waited * TickMs < call.wait.timeout)
    /\ (pc = "wait") ~> (pc = "idle")

\* A wait with a timeout of 0 ran one step and timed out
C15_Witness ==
    /\ Waiting
    /\ call.wait.timeout = 0
    /\ call.wait.stepped
    /\ result = "MESSAGE_TIMEOUT"

IsCancel(e) == e = <<"chunkedTransfer", "cancel">>

CancelAt == {i \in DOMAIN log : IsCancel(log[i])}

\* A step of the event loop that returned
StepReturned == call.name = "event_loop" /\ pc = "idle"

\* C16: a step of the event loop cancels the chunked transfer, once and last
\* of all, exactly when it returns an error; the error is that of the
\* receive, of the idle work or of the dispatch; a step that fails to receive
\* or receives nothing dispatches nothing, and a step dispatches one message.
C16_CancelIffError ==
    StepReturned =>
        /\ CancelAt = IF result # "NO_ERROR" THEN {Len(log)} ELSE {}
        /\ ~call.in.rcv => (result = ChannelError /\ Len(log) = 1)
        /\ (call.in.rcv /\ call.msg = NoMsg) =>
             /\ result = ErrorOf(call.in.idle)
             /\ Len(log) = IF call.in.idle THEN 0 ELSE 1
        /\ Cardinality(RegistryAt) + Cardinality(HandlerAt) <= 1

\* The error of a dispatch cancels the chunked transfer
C16_Witness ==
    /\ StepReturned
    /\ result = "MISSING_REQUEST_TOKEN"
    /\ CancelAt # {}

IsPanic(e) == e[1] = "panic"

PanicAt == {i \in DOMAIN log : IsPanic(log[i])}

\* C17: a describe is handed to channel.send only when its document fits the
\* buffer; when it overflows the device panics, last of all, with no describe
\* sent, no message id used and the pending describe ids left as they were.
C17_OverflowNeverSent ==
    (call.name = "event_loop") =>
        /\ DescribeSendAt # {} => call.in.ch.fits
        /\ (pc = "halted") <=> (PanicAt # {})
        /\ PanicAt # {} =>
             /\ PanicAt = {Len(log)}
             /\ ~call.in.ch.fits
             /\ DescribeSendAt = {}
             /\ \A f \in DESCRIBE_DEFAULT : PendingOf(f) = Pending0Of(f)
        /\ (Received("DESCRIBE") /\ ~call.in.ch.fits) => PanicAt # {}

\* The document of a describe response overflowed: the device halted
C17_Witness ==
    /\ pc = "halted"
    /\ Received("DESCRIBE")
    /\ EmptyAckAt # {}

IsAnyCommand(e) == e[1] = "command"

AnyCommandAt == {i \in DOMAIN log : IsAnyCommand(log[i])}

\* C18: a PING is answered by one empty acknowledgement that carries the id
\* of the PING, sent first and alone; no command is issued, no handler and no
\* registry entry is called, the pending describe ids stay, and the step
\* returns what the send of the acknowledgement returned.
C18_PingAckedWithItsId ==
    Received("PING") =>
        /\ log # <<>>
        /\ log[1] = Sent("EMPTY_ACK", call.msg.id, call.in.ch.ack, FALSE, {})
        /\ AnySendAt = {1}
        /\ AnyCommandAt = {}
        /\ HandlerAt = {}
        /\ RegistryAt = {}
        /\ \A f \in DESCRIBE_DEFAULT : PendingOf(f) = Pending0Of(f)
        /\ result = ErrorOf(call.in.ch.ack)
        /\ Len(log) = IF call.in.ch.ack THEN 1 ELSE 2

\* A PING acknowledged under its id
C18_Witness ==
    /\ Received("PING")
    /\ call.msg.id = MaxId
    /\ EmptyAckAt = {1}
    /\ result = "NO_ERROR"

\* The ids that were pending when the last begin() started
OldIds == {call.old.app, call.old.sys, call.old.subs} \ {INVALID_MESSAGE_HANDLE}

\* C19: begin() leaves the registry empty and the three pending ids invalid,
\* whatever channel.establish() answers, and nothing goes to the channel or to
\* the descriptor before channel.establish(); a reply received after it under
\* an id that was pending before it persists no CRC.
C19_BeginForgetsPending ==
    /\ (call.name = "begin") =>
         /\ ack_handlers = <<>>
         /\ Pending = NoPending
         /\ log # <<>>
         /\ log[1] = <<"establish", call.est>>
    /\ (call.name = "event_loop" /\ is_reply(call.msg.type)
        /\ call.msg.id \in OldIds) => PersistAt = {}

\* begin() failed to establish the channel with ids pending, and the reply
\* to one of them came afterwards
C19_Witness ==
    /\ call.name = "event_loop"
    /\ call.msg.type = "ACK"
    /\ call.msg.id = call.old.subs
    /\ result = "NO_ERROR"

\* begin() found an id pending and the channel was not established
C19_WitnessFailed ==
    /\ call.name = "begin"
    /\ call.est = ChannelError
    /\ call.pending0.sys # INVALID_MESSAGE_HANDLE

OverOf(f) == IF f = DESCRIBE_APPLICATION THEN call.over.app ELSE call.over.sys

SelectorOf(f) == IF f = DESCRIBE_APPLICATION THEN "DESCRIBE_APP" ELSE "DESCRIBE_SYSTEM"

PersistOfAt(f) == {i \in PersistAt : log[i][2] = SelectorOf(f)}

\* A DESCRIBE request answered: the response was sent
Responded == /\ call.name = "event_loop"
             /\ call.msg.mt = "DESCRIBE"
             /\ result = "NO_ERROR"

\* C20: after a describe response was sent, the pending id of each flavor the
\* request asked for is the id of the response, whatever id was pending, and
\* the pending id of the other flavor is as it was; an ACK that then comes
\* under an id the response replaced persists no CRC of that flavor.
C20_ResponseRecordsPending ==
    /\ Responded =>
         \E i \in ResponseAt :
            /\ ResponseAt = {i}
            /\ log[i][6] = call.msg.desc
            /\ \A f \in DESCRIBE_DEFAULT :
                 PendingOf(f) = IF f \in call.msg.desc THEN log[i][3]
                                                       ELSE Pending0Of(f)
    /\ \A f \in DESCRIBE_DEFAULT :
         (AckOf(OverOf(f)) /\ OverOf(f) # INVALID_MESSAGE_HANDLE) =>
            PersistOfAt(f) = {}

\* The ACK of a describe whose pending id a describe response replaced
C20_Witness ==
    /\ AckOf(call.over.sys)
    /\ call.over.sys # INVALID_MESSAGE_HANDLE
    /\ selector
    /\ result = "NO_ERROR"

\* A describe response replaced the pending id of an earlier describe
C20_WitnessReplaced ==
    /\ Responded
    /\ \E f \in DESCRIBE_DEFAULT :
         /\ Pending0Of(f) # INVALID_MESSAGE_HANDLE
         /\ PendingOf(f) # Pending0Of(f)

\* A call that may send a describe: a post, or the answer to a request
Describing ==
    \/ call.name = "post_description"
    \/ call.name = "event_loop" /\ call.msg.mt = "DESCRIBE"

\* The describes the call sent, of any flavor
DescribeSentAt == {i \in DescribeSendAt : log[i][4]}

\* C21: a call that posts or answers a describe sends at most one; the
\* pending id of a flavor is the id of that message when the message carries
\* the flavor, and is what it was otherwise: when a create or a send failed,
\* when the post was elided, and for the flavor the message does not carry.
\* The pending id of the subscriptions is what it was.
C21_PendingChangesOnlyOnSend ==
    Describing =>
        /\ Cardinality(DescribeSentAt) <= 1
        /\ subscriptions_msg_id = call.pending0.subs
        /\ \A f \in DESCRIBE_DEFAULT :
             /\ DescribeSent(f) = {} => PendingOf(f) = Pending0Of(f)
             /\ \A i \in DescribeSent(f) : PendingOf(f) = log[i][3]
        /\ result # "NO_ERROR" => DescribeSentAt = {}
        /\ FailureAt # {} => result # "NO_ERROR"

\* A describe of one flavor sent while the other flavor was pending
C21_Witness ==
    /\ Describing
    /\ DescribeSent(DESCRIBE_SYSTEM) # {}
    /\ DescribeSent(DESCRIBE_APPLICATION) = {}
    /\ call.pending0.app # INVALID_MESSAGE_HANDLE

\* A describe sent while the subscriptions were pending
C21_WitnessSubscriptions ==
    /\ Describing
    /\ DescribeSentAt # {}
    /\ call.pending0.subs # INVALID_MESSAGE_HANDLE

\* The send of a post failed while a describe was pending
C21_WitnessFailed ==
    /\ call.name = "post_description"
    /\ result # "NO_ERROR"
    /\ PostAt # {}
    /\ call.pending0.sys # INVALID_MESSAGE_HANDLE

\* A post elided while a describe was pending
C21_WitnessElided ==
    /\ call.name = "post_description"
    /\ ~call.force
    /\ log = <<>>
    /\ call.pending0.app # INVALID_MESSAGE_HANDLE

\* C22: begin() on a resumed session with an unchanged descriptor does three
\* things and no more: channel.establish(), MOVE_SESSION and one ping.  The
\* channel is not notified, nothing is persisted, no describe is posted and no
\* describe id is pending, DEVICE_INITIATED_DESCRIBE set or not; it returns the
\* error of the ping when the ping failed.
C22_FastPathOnlyPings ==
    ResumedUnchanged =>
        /\ Len(log) = 3
        /\ log[1] = <<"establish", "SESSION_RESUMED">>
        /\ IsMove(log[2])
        /\ IsPing(log[3])
        /\ AnySendAt = {3}
        /\ EstablishedAt = {}
        /\ PersistAt = {}
        /\ SaveAt = {}
        /\ CreateAt = {}
        /\ Pending = NoPending
        /\ ~log[3][4] => result = ChannelError

\* The fast path with DEVICE_INITIATED_DESCRIBE set and the ping refused
C22_Witness ==
    /\ ResumedUnchanged
    /\ DEVICE_INITIATED_DESCRIBE \in protocol_flags
    /\ result = ChannelError

\* C23: a KEY_CHANGE returns the result of DISCARD_SESSION when the session
\* is discarded, whatever the send of the ACK returned, so that a refused ACK
\* followed by a discard that succeeds returns NO_ERROR; without a discard it
\* returns the result of the send of the ACK when the message is confirmable,
\* and NO_ERROR when it is not.  A refused ACK does not keep the session from
\* being discarded.
C23_KeyChangeReturnsLastResult ==
    Received("KEY_CHANGE") =>
        /\ result = IF DiscardAt # {} THEN ErrorOf(call.in.ch.command)
                    ELSE IF call.msg.type = "CON" THEN ErrorOf(call.in.ch.ack)
                    ELSE "NO_ERROR"
        /\ \A a \in EmptyAckAt : log[a][4] = call.in.ch.ack
        /\ (call.msg.type = "CON" /\ ~call.in.ch.ack
            /\ call.msg.len > 7 /\ call.msg.opt = 1) => DiscardAt # {}

\* The ACK was refused, the session discarded, and NO_ERROR returned
C23_Witness ==
    /\ Received("KEY_CHANGE")
    /\ \E a \in EmptyAckAt : ~log[a][4]
    /\ DiscardAt # {}
    /\ result = "NO_ERROR"

\* The last step of hello_response() received a HELLO
HelloDispatched ==
    /\ call.name = "begin"
    /\ call.in.rcv
    /\ call.msg.mt = "HELLO"

\* What begin() did from that step on
SinceStep == SubSeq(log, call.at + 1, Len(log))

\* What the dispatch of that HELLO did
HelloStep ==
    (IF call.msg.type = "CON"
     THEN <<Sent("EMPTY_ACK", call.msg.id, call.in.ch.ack, FALSE, {})>>
     ELSE <<>>)
    \o <<<<"descriptor", "ota_upgrade_status_sent">>>>

\* C24: the HELLO of the cloud is acknowledged first when it is confirmable
\* and only then, the platform is told that the OTA status was sent, and the
\* step returns NO_ERROR whether the ACK was sent or refused: hello_response()
\* ends there, the chunked transfer is not cancelled, and begin() goes on to
\* notify the channel as established; it returns NO_ERROR unless something
\* failed after that notification.
C24_HelloAckFailureIgnored ==
    HelloDispatched =>
        /\ pc = "idle"
        /\ Len(SinceStep) > Len(HelloStep)
        /\ SubSeq(SinceStep, 1, Len(HelloStep)) = HelloStep
        /\ IsEstablished(SinceStep[Len(HelloStep) + 1])
        /\ Cardinality(HelloReceivedAt) = 1
        /\ CancelAt = {}
        /\ result \notin {"MESSAGE_TIMEOUT", "PENDING"}
        /\ (result = "NO_ERROR") <=> (FailedAfterEstablished = {})

\* The ACK of the HELLO was refused and the handshake completed
C24_Witness ==
    /\ HelloDispatched
    /\ call.msg.type = "CON"
    /\ ~call.in.ch.ack
    /\ EstablishedAt # {}
    /\ result = "NO_ERROR"

====
